---- MODULE Spec2Model ----
(***************************************************************************)
(* Model of python/hihue.py: the Vim plugin that pushes the colour of the  *)
(* word under the cursor to a Philips Hue light.                           *)
(*                                                                         *)
(* Python values are represented as follows.                               *)
(*   str            a sequence of one-character strings ("" is << >>)      *)
(*   None (a word)  NoWord, a sequence no str is equal to                  *)
(*   colour tuple   << r, g, b >> of integers; n stands for the float      *)
(*                  n / 255 (distinct n give distinct floats, and          *)
(*                  (0.0, 0.0, 0.0) == (0, 0, 0) in Python)                *)
(*   None (colour)  NoColor, the empty sequence                            *)
(*   bridge, config "None" or "set"                                        *)
(* The clock is time.time_ns() expressed in milliseconds.                  *)
(***************************************************************************)
EXTENDS Integers, Sequences, FiniteSets, TLC

VARIABLES
    pc,             \* "load": module not imported yet, "ready", "failed": import raised
    now,            \* wall clock, ms since the epoch
    credFile,       \* os.path.isfile(_phue_config_path())
    hasIp,          \* exists("g:hiHue#bridge_ip")
    hasLight,       \* exists("g:hiHue#light_name")
    disableAtStart, \* g:hiHue#disableAtStart as set by the user (0 or 1)
    fallbackVar,    \* g:hiHue#fallbackColor (or its default), a str
    fallbackFlagVar,\* g:hiHue#fallbackIfNotOverColor (or its default 1)
    bridge,         \* global bridge
    config,         \* global config
    lastWord,       \* global lastWord
    lastTimestamp,  \* global lastTimestamp
    currentColor,   \* global currentColor
    lightIsFallback,\* global lightIsFallback
    fallbackIfNotOverColor, \* global fallbackIfNotOverColor
    fallbackColor,  \* global fallbackColor
    lastEvalMs,     \* clock (ms) read by the last evaluation that stored lastTimestamp
    last            \* what the most recent handler did (see Idle)

vars == << pc, now, credFile, hasIp, hasLight, disableAtStart, fallbackVar,
           fallbackFlagVar, bridge, config, lastWord, lastTimestamp,
           currentColor, lightIsFallback, fallbackIfNotOverColor,
           fallbackColor, lastEvalMs, last >>

(***************************************************************************)
(* Bounds of the model.                                                    *)
(***************************************************************************)
\* The clock at module load, standing for the Unix time of the session.
ClockBase == 10000
\* How many times the clock advances by one TickMs step.
MaxTicks == 2

TickMs == {500}

NoWord == << "<None>" >>
NoColor == << >>

Min(a, b) == IF a < b THEN a ELSE b

(***************************************************************************)
(* Strings.                                                                *)
(***************************************************************************)
HexDigits == { "0", "1", "2", "3", "4", "5", "6", "7", "8", "9",
               "a", "b", "c", "d", "e", "f", "A", "B", "C", "D", "E", "F" }

HexVal(c) ==
    CASE c = "0" -> 0  [] c = "1" -> 1  [] c = "2" -> 2  [] c = "3" -> 3
      [] c = "4" -> 4  [] c = "5" -> 5  [] c = "6" -> 6  [] c = "7" -> 7
      [] c = "8" -> 8  [] c = "9" -> 9
      [] c \in {"a", "A"} -> 10 [] c \in {"b", "B"} -> 11
      [] c \in {"c", "C"} -> 12 [] c \in {"d", "D"} -> 13
      [] c \in {"e", "E"} -> 14 [] c \in {"f", "F"} -> 15

\* s[i:j] of Python, 0-based, clipped to the string.
Slice(s, i, j) == SubSeq(s, i + 1, Min(j, Len(s)))

\* s.lstrip('#')
RECURSIVE LStripHash(_)
LStripHash(s) ==
    IF s # << >> /\ Head(s) = "#" THEN LStripHash(Tail(s)) ELSE s

\* int(s, 16) for the strings the model draws (no sign, blank or underscore):
\* -1 stands for ValueError.
RECURSIVE Int16(_)
Int16(s) ==
    IF s = << >> THEN -1
    ELSE IF s[Len(s)] \notin HexDigits THEN -1
    ELSE IF Len(s) = 1 THEN HexVal(s[1])
    ELSE LET hi == Int16(SubSeq(s, 1, Len(s) - 1))
         IN  IF hi = -1 THEN -1 ELSE 16 * hi + HexVal(s[Len(s)])

\* colorPattern.match(word): re.match anchors the pattern at the start of the
\* word only; the optional group never decides whether there is a match.
ColorPatternMatch(word) ==
    /\ Len(word) >= 4
    /\ word[1] = "#"
    /\ \A i \in 2..4 : word[i] \in HexDigits

\* tuple(int(color.lstrip('#')[i:i+2], 16) / 255 for i in (0, 2, 4)):
\* NoColor stands for the ValueError of the first component that fails.
ParseColor(color) ==
    LET s == LStripHash(color)
        r == Int16(Slice(s, 0, 2))
        g == Int16(Slice(s, 2, 4))
        b == Int16(Slice(s, 4, 6))
    IN  IF r = -1 \/ g = -1 \/ b = -1 THEN NoColor ELSE << r, g, b >>

(***************************************************************************)
(* Values returned by the Vim interface.  vim.eval returns a Vim number as *)
(* a Python str; a str never equals an int.                                *)
(***************************************************************************)
VimEval(n) == << "str", n >>
PyInt(n) == << "int", n >>
\* int(x) of a str holding a number
IntOf(x) == PyInt(x[2])

(***************************************************************************)
(* What a handler did, for the properties to read.                         *)
(*   op        the handler                                                 *)
(*   word      the word under the cursor given to try_highlight_word       *)
(*   elapsedMs the clock minus lastEvalMs when try_highlight_word began    *)
(*   evaluated whether try_highlight_word entered its if block             *)
(*   dispatch  which _set_color call it made: "none", "word", "fallback"   *)
(*   sample    the colour _set_color compared with currentColor            *)
(*   calls     the bridge calls attempted, in order                        *)
(*   caught    the exception caught at line 178                            *)
(*   raised    the exception that left the handler                         *)
(*   printed   the messages printed                                        *)
(*   conv      the colour handed to _rgb_to_xy                             *)
(*   xy        what _rgb_to_xy returned, in thousandths                    *)
(*   handshake whether _connect reached Bridge(...): "none", "ok", "failed"*)
(*   ret       the value _deregister returned                              *)
(*   shown     the fields status() printed                                 *)
(***************************************************************************)
Idle(op) ==
    [ op |-> op, word |-> NoWord, elapsedMs |-> 0, evaluated |-> FALSE,
      dispatch |-> "none",
      sample |-> NoColor, calls |-> << >>, caught |-> "none",
      raised |-> "none", printed |-> {}, conv |-> NoColor, xy |-> << >>,
      handshake |-> "none", ret |-> FALSE, shown |-> << >> ]

Off == << 0, 0, 0 >>

(***************************************************************************)
(* _rgb_to_xy, lines 112-141, in fixed point.  A channel is n / 255 for a  *)
(* byte n; linear intensities and X, Y, Z are in millionths, the           *)
(* chromaticities x, y in thousandths.                                     *)
(***************************************************************************)
\* Lines 125-130 tabulated: entry n + 1 is the gamma-corrected n / 255 in
\* millionths, (n/255)/12.92 up to n = 10 and ((n/255 + 0.055)/1.055)^2.4
\* above.
GammaTable == <<
          0,     304,     607,     911,    1214,    1518,    1821,    2125,
       2428,    2732,    3035,    3347,    3677,    4025,    4391,    4777,
       5182,    5605,    6049,    6512,    6995,    7499,    8023,    8568,
       9134,    9721,   10330,   10960,   11612,   12286,   12983,   13702,
      14444,   15209,   15996,   16807,   17642,   18500,   19382,   20289,
      21219,   22174,   23153,   24158,   25187,   26241,   27321,   28426,
      29557,   30713,   31896,   33105,   34340,   35601,   36889,   38204,
      39546,   40915,   42311,   43735,   45186,   46665,   48172,   49707,
      51269,   52861,   54480,   56128,   57805,   59511,   61246,   63010,
      64803,   66626,   68478,   70360,   72272,   74214,   76185,   78187,
      80220,   82283,   84376,   86500,   88656,   90842,   93059,   95307,
      97587,   99899,  102242,  104616,  107023,  109462,  111932,  114435,
     116971,  119538,  122139,  124772,  127438,  130136,  132868,  135633,
     138432,  141263,  144128,  147027,  149960,  152926,  155926,  158961,
     162029,  165132,  168269,  171441,  174647,  177888,  181164,  184475,
     187821,  191202,  194618,  198069,  201556,  205079,  208637,  212231,
     215861,  219526,  223228,  226966,  230740,  234551,  238398,  242281,
     246201,  250158,  254152,  258183,  262251,  266356,  270498,  274677,
     278894,  283149,  287441,  291771,  296138,  300544,  304987,  309469,
     313989,  318547,  323143,  327778,  332452,  337164,  341914,  346704,
     351533,  356400,  361307,  366253,  371238,  376262,  381326,  386429,
     391572,  396755,  401978,  407240,  412543,  417885,  423268,  428690,
     434154,  439657,  445201,  450786,  456411,  462077,  467784,  473531,
     479320,  485150,  491021,  496933,  502886,  508881,  514918,  520996,
     527115,  533276,  539479,  545724,  552011,  558340,  564712,  571125,
     577580,  584078,  590619,  597202,  603827,  610496,  617207,  623960,
     630757,  637597,  644480,  651406,  658375,  665387,  672443,  679542,
     686685,  693872,  701102,  708376,  715694,  723055,  730461,  737910,
     745404,  752942,  760525,  768151,  775822,  783538,  791298,  799103,
     806952,  814847,  822786,  830770,  838799,  846873,  854993,  863157,
     871367,  879622,  887923,  896269,  904661,  913099,  921582,  930111,
     938686,  947307,  955973,  964686,  973445,  982251,  991102, 1000000 >>

Gamma(n) == GammaTable[n + 1]

\* v * c / 10^6 for v and c in millionths, within 32-bit integers.
MulMicro(v, c) == ((v \div 1000) * c + ((v % 1000) * c) \div 1000) \div 1000

\* Lines 133-135: X, Y, Z of a colour, in millionths.
Xyz(color) ==
    LET r == Gamma(color[1])
        g == Gamma(color[2])
        b == Gamma(color[3])
    IN  << MulMicro(r, 649926) + MulMicro(g, 103455) + MulMicro(b, 197109),
           MulMicro(r, 234327) + MulMicro(g, 743075) + MulMicro(b, 22598),
           MulMicro(g, 53077) + MulMicro(b, 1035763) >>

XyzSum(color) == Xyz(color)[1] + Xyz(color)[2] + Xyz(color)[3]

\* A conversion that divides Y by X + Y + Z as well.
RgbToXy_SameSum(color) ==
    LET t == Xyz(color)
    IN  IF t[1] + t[2] + t[3] = 0 THEN << >>
        ELSE << (t[1] * 1000) \div (t[1] + t[2] + t[3]),
                (t[2] * 1000) \div (t[1] + t[2] + t[3]) >>

\* Lines 138-141: line 138 overwrites x, and line 139 divides by the new x
\* plus y plus z.  << >> stands for the ZeroDivisionError of line 138.
RgbToXy(color) ==
    LET t == Xyz(color)
    IN  IF t[1] + t[2] + t[3] = 0 THEN << >>
        ELSE LET x == (t[1] * 1000) \div (t[1] + t[2] + t[3])
             IN  << x, (t[2] * 1000) \div (x * 1000 + t[2] + t[3]) >>

\* Which bridge call raises: 0 none, 1 on, 2 bri, 3 the lookup, 4 xy (1 off).
FailPoints == 0 .. 4

\* A try block that records the colour before it calls the bridge.
TrySetLight_RecordFirst(cc, color, fail) ==
    IF color = NoColor
    THEN [ cc |-> cc, calls |-> << "on", "bri", "lookup" >>,
           caught |-> "TypeError", conv |-> NoColor ]
    ELSE [ cc |-> color,
           calls |-> IF color = Off THEN << "off" >>
                     ELSE SubSeq(<< "on", "bri", "lookup", "xy" >>, 1,
                                 IF fail = 0 THEN 4 ELSE fail),
           caught |-> IF fail = 0 THEN "none" ELSE "device",
           conv |-> IF color # Off /\ fail \in { 0, 4 } THEN color
                    ELSE NoColor ]

\* A try block without the branch of line 175: black is sent as a colour.
TrySetLight_NoOffBranch(cc, color, fail) ==
    IF fail = 0
    THEN [ cc |-> color, calls |-> << "on", "bri", "lookup", "xy" >>,
           caught |-> "none", conv |-> color ]
    ELSE [ cc |-> cc,
           calls |-> SubSeq(<< "on", "bri", "lookup", "xy" >>, 1, fail),
           caught |-> "device",
           conv |-> IF fail = 4 THEN color ELSE NoColor ]

(***************************************************************************)
(* _set_color, lines 162-179: the try block.  fail = 0: every bridge call  *)
(* succeeds; fail = k: the k-th bridge call raises.                        *)
(***************************************************************************)
TrySetLight(cc, color, fail) ==
    IF color # Off
    THEN CASE fail = 1 ->
                [ cc |-> cc, calls |-> << "on" >>, caught |-> "device",
                  conv |-> NoColor ]
           [] fail = 2 ->
                [ cc |-> cc, calls |-> << "on", "bri" >>, caught |-> "device",
                  conv |-> NoColor ]
           [] fail = 3 ->
                [ cc |-> cc, calls |-> << "on", "bri", "lookup" >>,
                  caught |-> "device", conv |-> NoColor ]
           [] fail \notin 1..3 /\ color = NoColor ->
                \* color[0] of None
                [ cc |-> cc, calls |-> << "on", "bri", "lookup" >>,
                  caught |-> "TypeError", conv |-> NoColor ]
           [] fail = 4 /\ color # NoColor ->
                [ cc |-> cc, calls |-> << "on", "bri", "lookup", "xy" >>,
                  caught |-> "device", conv |-> color ]
           [] OTHER ->
                [ cc |-> color, calls |-> << "on", "bri", "lookup", "xy" >>,
                  caught |-> "none", conv |-> color ]
    ELSE IF fail = 0
         THEN [ cc |-> Off, calls |-> << "off" >>, caught |-> "none",
                conv |-> NoColor ]
         ELSE [ cc |-> cc, calls |-> << "off" >>, caught |-> "device",
                conv |-> NoColor ]

\* A guard that forgets the bridge.
SessionMissing_ConfigOnly(b, cfg) == cfg = "None"

\* The guard of line 155.
SessionMissing(b, cfg) == b = "None" \/ cfg = "None"

\* A condition that sends every sample.
NeedsUpdate_Always(cc, color, force) == TRUE

\* The condition of line 162.
NeedsUpdate(cc, color, force) == cc # color \/ force

(***************************************************************************)
(* _set_color(color, force) run with the globals b (bridge), cfg (config)  *)
(* and cc (currentColor).  isStr: type(color) is str.                      *)
(***************************************************************************)
SetColor(b, cfg, cc, color, isStr, force, fail) ==
    LET none == [ ret |-> NoColor, sample |-> NoColor, cc |-> cc,
                  calls |-> << >>, caught |-> "none", raised |-> "none",
                  printed |-> {}, conv |-> NoColor ]
    IN  IF SessionMissing(b, cfg)
        THEN [ none EXCEPT !.printed = { "No bridge or config" } ]
        ELSE LET c == IF isStr THEN ParseColor(color) ELSE color
             IN  IF isStr /\ c = NoColor
                 THEN [ none EXCEPT !.raised = "ValueError" ]
                 ELSE IF NeedsUpdate(cc, c, force)
                 THEN LET t == TrySetLight(cc, c, fail)
                      IN  [ ret |-> c, sample |-> c, cc |-> t.cc,
                            calls |-> t.calls, caught |-> t.caught,
                            raised |-> "none",
                            printed |-> IF t.caught = "none" THEN {}
                                        ELSE { "[HiHue] Error" },
                            conv |-> t.conv ]
                 ELSE [ none EXCEPT !.ret = c, !.sample = c ]

(***************************************************************************)
(* Inputs.                                                                 *)
(***************************************************************************)
W_ff8800 == << "#", "f", "f", "8", "8", "0", "0" >>
W_FF8800 == << "#", "F", "F", "8", "8", "0", "0" >>
W_f80 == << "#", "f", "8", "0" >>
W_hello == << "h", "e", "l", "l", "o" >>
W_empty == << >>

\* The words expand('<cWORD>') returns in the model.
Words == { W_ff8800, W_FF8800, W_f80, W_hello, W_empty }

\* g:hiHue#fallbackColor: the default of line 185, and a colour.
FallbackDefault == << "0", "0", "0", "0", "0" >>
FallbackVars == { FallbackDefault, << "0", "0", "f", "f", "0", "0" >> }

\* The debounce threshold of line 192.
Window == 1000

(***************************************************************************)
(* _get_config(isStartup), lines 40-60: "ok", or the message printed when  *)
(* it returns None ("" when it returns None silently).                     *)
(***************************************************************************)
GetConfig(isStartup) ==
    IF ~ (isStartup /\ VimEval(disableAtStart) = PyInt(1))
    THEN IF ~ hasIp THEN "Bridge ip not defined"
         ELSE IF ~ hasLight THEN "Light name not defined"
         ELSE "ok"
    ELSE ""

(***************************************************************************)
(* _connect(isStartup), lines 78-87.  handshake: whether Bridge(...) and   *)
(* b.connect() return (they register with the bridge when there is no      *)
(* credential file, and raise when that fails).                            *)
(***************************************************************************)
ConnectRes(isStartup, handshake) ==
    LET cfg == GetConfig(isStartup)
    IN  IF cfg # "ok"
        THEN [ raised |-> "none", bridge |-> "None", config |-> "None",
               credFile |-> credFile, handshake |-> "none",
               printed |-> IF cfg = "" THEN {} ELSE { cfg } ]
        ELSE IF ~ handshake
        THEN [ raised |-> "BridgeError", bridge |-> bridge, config |-> config,
               credFile |-> credFile, handshake |-> "failed",
               printed |-> {} ]
        ELSE [ raised |-> "none", bridge |-> "set", config |-> "set",
               credFile |-> TRUE, handshake |-> "ok",
               printed |-> IF ~ credFile THEN { "Successfully registered" }
                           ELSE {} ]

\* An import that calls _connect whether or not the credential file exists.
StartupConnects_Always == TRUE

\* The condition of line 106: the import calls _connect only when the
\* credential file exists.
StartupConnects == credFile

\* A policy that is always on.
FallbackEnabled_Always(flagVar) == TRUE

\* Lines 148-149: int(vim.eval(...)) == 1.
FallbackEnabled(flagVar) == IntOf(VimEval(flagVar)) = PyInt(1)

\* What _rgb_to_xy returns for the colour handed to it, if any.
XyOf(conv) == IF conv = NoColor THEN << >> ELSE RgbToXy(conv)

Init ==
    /\ pc = "load"
    /\ now = ClockBase
    /\ credFile \in BOOLEAN
    /\ hasIp \in BOOLEAN
    /\ hasLight \in BOOLEAN
    /\ disableAtStart \in { 0, 1 }
    /\ fallbackVar \in FallbackVars
    /\ fallbackFlagVar \in { 0, 1 }
    /\ bridge = "None"
    /\ config = "None"
    /\ lastWord = << >>
    /\ lastTimestamp = 0
    /\ currentColor = NoColor
    /\ lightIsFallback = TRUE
    /\ fallbackIfNotOverColor = FALSE
    /\ fallbackColor = NoColor
    /\ lastEvalMs = 0
    /\ last = Idle("none")

(***************************************************************************)
(* Import of the module: the module-level statements of lines 105-109,     *)
(* 144-150 and 183-185.  An exception leaves the module unimported.        *)
(***************************************************************************)
Startup ==
    /\ pc = "load"
    /\ \E handshake \in BOOLEAN, fail \in FailPoints :
        LET c == IF StartupConnects THEN ConnectRes(TRUE, handshake)
                 ELSE [ raised |-> "none", bridge |-> "None",
                        config |-> "None", credFile |-> credFile,
                        handshake |-> "none", printed |-> {} ]
            s == SetColor(c.bridge, c.config, NoColor, fallbackVar, TRUE,
                          FALSE, fail)
        IN  IF c.raised # "none"
            THEN /\ pc' = "failed"
                 /\ last' = [ Idle("startup") EXCEPT
                                !.raised = c.raised,
                                !.handshake = c.handshake ]
                 /\ UNCHANGED << bridge, config, credFile, currentColor,
                                 fallbackIfNotOverColor, fallbackColor >>
            ELSE /\ bridge' = c.bridge
                 /\ config' = c.config
                 /\ credFile' = c.credFile
                 /\ fallbackIfNotOverColor' = FallbackEnabled(fallbackFlagVar)
                 /\ currentColor' = s.cc
                 /\ fallbackColor' = s.ret
                 /\ pc' = IF s.raised # "none" THEN "failed" ELSE "ready"
                 /\ last' = [ Idle("startup") EXCEPT
                                !.dispatch = "fallback",
                                !.sample = s.sample,
                                !.calls = s.calls,
                                !.caught = s.caught,
                                !.raised = s.raised,
                                !.printed = c.printed \cup s.printed,
                                !.conv = s.conv,
                                !.xy = XyOf(s.conv),
                                !.handshake = c.handshake ]
    /\ UNCHANGED << now, hasIp, hasLight, disableAtStart, fallbackVar,
                    fallbackFlagVar, lastWord, lastTimestamp, lightIsFallback,
                    lastEvalMs >>

(***************************************************************************)
(* try_highlight_word, lines 188-201.  t is the clock in ms, so            *)
(* time.time_ns() is t * 10^6.                                             *)
(***************************************************************************)
\* The clock compared in the unit line 201 stores.
NowCompared_SameUnit(t) == t \div 10

\* time.time_ns() // 10E3 (line 192): 10E3 is 10^4
NowCompared(t) == t * 100
\* time.time_ns() // 10E6 (line 201): 10E6 is 10^7
NowStored(t) == t \div 10

\* A condition that looks at the elapsed time alone.
ShouldEvaluate_TimeOnly(word, t) ==
    NowCompared(t) - lastTimestamp >= Window

\* A condition that lets the same word through once the window has passed.
ShouldEvaluate_Either(word, t) ==
    lastWord # word \/ t - lastEvalMs >= Window

\* The condition of line 192.
ShouldEvaluate(word, t) ==
    lastWord # word /\ NowCompared(t) - lastTimestamp >= Window

OnToken(word, fail) ==
    /\ pc = "ready"
    /\ LET idle == [ Idle("onToken") EXCEPT !.word = word,
                                               !.elapsedMs = now - lastEvalMs ]
           done(s, how) == [ idle EXCEPT !.evaluated = TRUE,
                                         !.dispatch = how,
                                         !.sample = s.sample,
                                         !.calls = s.calls,
                                         !.caught = s.caught,
                                         !.raised = s.raised,
                                         !.printed = s.printed,
                                         !.conv = s.conv,
                                         !.xy = XyOf(s.conv) ]
       IN  IF ~ ShouldEvaluate(word, now)
           THEN /\ last' = idle
                /\ UNCHANGED << currentColor, lastWord, lastTimestamp,
                                lastEvalMs >>
           ELSE IF ColorPatternMatch(word)
           THEN LET s == SetColor(bridge, config, currentColor, word, TRUE,
                                  FALSE, fail)
                IN  /\ last' = done(s, "word")
                    /\ currentColor' = s.cc
                    /\ IF s.raised # "none"
                       THEN UNCHANGED << lastWord, lastTimestamp, lastEvalMs >>
                       ELSE /\ lastWord' = word
                            /\ lastTimestamp' = NowStored(now)
                            /\ lastEvalMs' = now
           ELSE IF fallbackIfNotOverColor
           THEN LET s == SetColor(bridge, config, currentColor, fallbackColor,
                                  FALSE, FALSE, fail)
                IN  /\ last' = done(s, "fallback")
                    /\ currentColor' = s.cc
                    /\ lastWord' = NoWord
                    /\ lastTimestamp' = NowStored(now)
                    /\ lastEvalMs' = now
           ELSE /\ last' = [ idle EXCEPT !.evaluated = TRUE ]
                /\ lastTimestamp' = NowStored(now)
                /\ lastEvalMs' = now
                /\ UNCHANGED << currentColor, lastWord >>
    \* lines 196 and 200 assign a local lightIsFallback: the function declares
    \* only lastWord and lastTimestamp global.
    /\ UNCHANGED << pc, now, credFile, hasIp, hasLight, disableAtStart,
                    fallbackVar, fallbackFlagVar, bridge, config,
                    lightIsFallback, fallbackIfNotOverColor, fallbackColor >>

(***************************************************************************)
(* status(), lines 204-218.                                                *)
(***************************************************************************)
Status ==
    /\ pc = "ready"
    /\ last' = [ Idle("status") EXCEPT
                   !.printed = IF ~ credFile THEN { "No registered bridge!" }
                               ELSE {},
                   !.shown = << bridge # "None", config, credFile,
                                currentColor, lightIsFallback >> ]
    /\ UNCHANGED << pc, now, credFile, hasIp, hasLight, disableAtStart,
                    fallbackVar, fallbackFlagVar, bridge, config, lastWord,
                    lastTimestamp, currentColor, lightIsFallback,
                    fallbackIfNotOverColor, fallbackColor, lastEvalMs >>

(***************************************************************************)
(* connect, lines 221-249.  nargs = len(vargs); lets: how many of the     *)
(* two vim.command calls of lines 244-246 succeed before one raises (the   *)
(* argument is pasted unquoted into the command).                          *)
(***************************************************************************)
Connect(nargs, lets, handshake) ==
    /\ pc = "ready"
    /\ IF nargs > 2
       THEN /\ last' = [ Idle("connect") EXCEPT
                           !.printed = { "Too many arguments" } ]
            /\ UNCHANGED << hasIp, hasLight, bridge, config, credFile >>
       ELSE IF nargs = 1
       THEN \* line 233 reads arg, which is not defined
            /\ last' = [ Idle("connect") EXCEPT !.raised = "NameError" ]
            /\ UNCHANGED << hasIp, hasLight, bridge, config, credFile >>
       ELSE IF nargs = 2 /\ lets < 2
       THEN /\ hasIp' = (hasIp \/ lets >= 1)
            /\ last' = [ Idle("connect") EXCEPT !.raised = "vim.error" ]
            /\ UNCHANGED << hasLight, bridge, config, credFile >>
       ELSE /\ hasIp' = (hasIp \/ nargs = 2)
            /\ hasLight' = (hasLight \/ nargs = 2)
            /\ LET c == ConnectRes(FALSE, handshake)
               IN  /\ bridge' = c.bridge
                   /\ config' = c.config
                   /\ credFile' = c.credFile
                   /\ last' = [ Idle("connect") EXCEPT
                                  !.raised = c.raised,
                                  !.printed = c.printed,
                                  !.handshake = c.handshake ]
    /\ UNCHANGED << pc, now, disableAtStart, fallbackVar, fallbackFlagVar,
                    lastWord, lastTimestamp, currentColor, lightIsFallback,
                    fallbackIfNotOverColor, fallbackColor, lastEvalMs >>

\* A _disconnect that forgets the configuration as well.
DisconnectRes_DropsConfig(b, cfg) == [ bridge |-> "None", config |-> "None" ]

\* _disconnect, lines 90-92, run with the globals b (bridge) and cfg (config).
DisconnectRes(b, cfg) == [ bridge |-> "None", config |-> cfg ]

\* A _deregister that keeps the session.
DeregisterRes_KeepsSession(b, cfg, file) ==
    [ bridge |-> b, config |-> cfg, credFile |-> FALSE, ret |-> file ]

\* _deregister, lines 95-102.  file: the credential file exists.
DeregisterRes(b, cfg, file) ==
    LET d == DisconnectRes(b, cfg)
    IN  [ bridge |-> d.bridge, config |-> d.config, credFile |-> FALSE,
          ret |-> file ]

(***************************************************************************)
(* disconnect(), lines 252-253.                                            *)
(***************************************************************************)
Disconnect ==
    /\ pc = "ready"
    /\ LET d == DisconnectRes(bridge, config)
       IN  /\ bridge' = d.bridge
           /\ config' = d.config
    /\ last' = Idle("disconnect")
    /\ UNCHANGED << pc, now, credFile, hasIp, hasLight, disableAtStart,
                    fallbackVar, fallbackFlagVar, lastWord,
                    lastTimestamp, currentColor, lightIsFallback,
                    fallbackIfNotOverColor, fallbackColor, lastEvalMs >>

(***************************************************************************)
(* deregister(), lines 256-260.                                            *)
(***************************************************************************)
Deregister ==
    /\ pc = "ready"
    /\ LET d == DeregisterRes(bridge, config, credFile)
       IN  /\ bridge' = d.bridge
           /\ config' = d.config
           /\ credFile' = d.credFile
           /\ last' = [ Idle("deregister") EXCEPT
                          !.ret = d.ret,
                          !.printed = IF d.ret THEN { "Deregistered bridge" }
                                      ELSE { "Nothing to deregister" } ]
    /\ UNCHANGED << pc, now, hasIp, hasLight, disableAtStart, fallbackVar,
                    fallbackFlagVar, lastWord, lastTimestamp,
                    currentColor, lightIsFallback, fallbackIfNotOverColor,
                    fallbackColor, lastEvalMs >>

(***************************************************************************)
(* The host: the user (un)sets g:hiHue#bridge_ip or g:hiHue#light_name     *)
(* (read by lines 49 and 52), and the clock advances.                      *)
(***************************************************************************)
UserLet ==
    /\ pc = "ready"
    /\ \/ hasIp' = ~ hasIp /\ UNCHANGED hasLight
       \/ hasLight' = ~ hasLight /\ UNCHANGED hasIp
    /\ last' = Idle("let")
    /\ UNCHANGED << pc, now, credFile, disableAtStart, fallbackVar,
                    fallbackFlagVar, bridge, config, lastWord, lastTimestamp,
                    currentColor, lightIsFallback, fallbackIfNotOverColor,
                    fallbackColor, lastEvalMs >>

Tick ==
    /\ pc = "ready"
    /\ \E d \in TickMs :
        /\ now + d <= ClockBase + MaxTicks * d
        /\ now' = now + d
    /\ last' = Idle("tick")
    /\ UNCHANGED << pc, credFile, hasIp, hasLight, disableAtStart,
                    fallbackVar, fallbackFlagVar, bridge, config, lastWord,
                    lastTimestamp, currentColor, lightIsFallback,
                    fallbackIfNotOverColor, fallbackColor, lastEvalMs >>

\* The outcomes of the bridge calls matter only when some are made.
FailChoices(word) ==
    IF ShouldEvaluate(word, now) /\ ~ SessionMissing(bridge, config)
    THEN FailPoints ELSE { 0 }

Next ==
    \/ Startup
    \/ \E word \in Words : \E fail \in FailChoices(word) : OnToken(word, fail)
    \/ Status
    \/ \E nargs \in 0 .. 3 :
         \E lets \in (IF nargs = 2 THEN 0 .. 2 ELSE { 2 }) :
           \E handshake \in (IF nargs \in { 1, 3 } \/ lets < 2 THEN { TRUE }
                              ELSE BOOLEAN) :
             Connect(nargs, lets, handshake)
    \/ Disconnect
    \/ Deregister
    \/ UserLet
    \/ Tick

Spec == Init /\ [][Next]_vars

(***************************************************************************)
(* The word handling alone: try_highlight_word run once, in the state the  *)
(* import leaves with a credential file, both variables set, the defaults  *)
(* and a bridge that answers, on every word of at most MaxWordLen          *)
(* characters of Alphabet.  last.word holds the word until it is handled.  *)
(***************************************************************************)
MaxWordLen == 8

Alphabet == { "#", "f", "A", ";" }

AllWords == UNION { [ 1 .. n -> Alphabet ] : n \in 0 .. MaxWordLen }

InitWords ==
    /\ pc = "ready"
    /\ now = ClockBase
    /\ credFile = TRUE
    /\ hasIp = TRUE
    /\ hasLight = TRUE
    /\ disableAtStart = 0
    /\ fallbackVar = FallbackDefault
    /\ fallbackFlagVar = 1
    /\ bridge = "set"
    /\ config = "set"
    /\ lastWord = << >>
    /\ lastTimestamp = 0
    /\ currentColor = Off
    /\ lightIsFallback = TRUE
    /\ fallbackIfNotOverColor = TRUE
    /\ fallbackColor = Off
    /\ lastEvalMs = 0
    /\ \E w \in AllWords : last = [ Idle("input") EXCEPT !.word = w ]

NextWords ==
    /\ last.op = "input"
    /\ \E fail \in FailPoints : OnToken(last.word, fail)

SpecWords == InitWords /\ [][NextWords]_vars

(***************************************************************************)
(* The conversion alone: _rgb_to_xy called once on every colour whose      *)
(* channels are in Channels (bytes on both sides of the gamma threshold of *)
(* line 125, which lies between 10/255 and 11/255).  last.conv holds the   *)
(* argument.                                                               *)
(***************************************************************************)
Channels == { 0, 1, 10, 11, 128, 255 }

InitXy ==
    /\ pc = "ready"
    /\ now = ClockBase
    /\ credFile = TRUE
    /\ hasIp = TRUE
    /\ hasLight = TRUE
    /\ disableAtStart = 0
    /\ fallbackVar = FallbackDefault
    /\ fallbackFlagVar = 1
    /\ bridge = "set"
    /\ config = "set"
    /\ lastWord = << >>
    /\ lastTimestamp = 0
    /\ currentColor = Off
    /\ lightIsFallback = TRUE
    /\ fallbackIfNotOverColor = TRUE
    /\ fallbackColor = Off
    /\ lastEvalMs = 0
    /\ \E r \in Channels, g \in Channels, b \in Channels :
         last = [ Idle("input") EXCEPT !.conv = << r, g, b >> ]

\* _rgb_to_xy(red, green, blue), lines 112-141.
RgbToXyCall ==
    /\ last.op = "input"
    /\ last' = [ Idle("rgb_to_xy") EXCEPT
                   !.conv = last.conv,
                   !.xy = RgbToXy(last.conv),
                   !.raised = IF XyzSum(last.conv) = 0
                              THEN "ZeroDivisionError" ELSE "none" ]
    /\ UNCHANGED << pc, now, credFile, hasIp, hasLight, disableAtStart,
                    fallbackVar, fallbackFlagVar, bridge, config, lastWord,
                    lastTimestamp, currentColor, lightIsFallback,
                    fallbackIfNotOverColor, fallbackColor, lastEvalMs >>

NextXy == RgbToXyCall

SpecXy == InitXy /\ [][NextXy]_vars

(***************************************************************************)
(* Properties.                                                             *)
(***************************************************************************)
Connected == bridge # "None"

\* The step is a run of try_highlight_word on word w.
TokenStep(w) == last'.op = "onToken" /\ last'.word = w

\* The tracker and dispatcher state a run of try_highlight_word can write.
TrackerUnchanged ==
    UNCHANGED << lastWord, lastTimestamp, lastEvalMs, currentColor,
                 lightIsFallback >>

\* C1: no bridge call is attempted while the session is not connected, and
\* _set_color called without a session reports "No bridge or config", makes
\* no bridge call and leaves currentColor as it was.
C1_NoCallUnlessConnected ==
    /\ [](last.calls # << >> => Connected /\ config # "None")
    /\ [][ (last'.dispatch # "none" /\ ~ Connected')
            => /\ "No bridge or config" \in last'.printed
               /\ last'.calls = << >>
               /\ last'.conv = NoColor
               /\ currentColor' = currentColor ]_vars

C1_Witness ==
    /\ last.op = "onToken"
    /\ last.dispatch = "word"
    /\ ~ Connected
    /\ config = "set"
    /\ "No bridge or config" \in last.printed
    /\ last.calls = << >>

\* C2: try_highlight_word on the word equal to lastWord, less than Window ms
\* after the last evaluation, does nothing: no classification, no _set_color
\* call, no bridge call, tracker state unchanged.
C2_SameTokenInWindowSuppressed ==
    [][ \A w \in Words :
          (TokenStep(w) /\ w = lastWord /\ now - lastEvalMs < Window)
            => /\ ~ last'.evaluated
               /\ last'.dispatch = "none"
               /\ last'.calls = << >>
               /\ TrackerUnchanged ]_vars

C2_Witness ==
    /\ last.op = "onToken"
    /\ last.word = W_ff8800
    /\ lastWord = W_ff8800
    /\ currentColor = << 255, 136, 0 >>
    /\ last.elapsedMs = 500
    /\ ~ last.evaluated
    /\ last.calls = << >>

C4_OtherTokenNeverSuppressed ==
    [][ \A w \in Words :
          (TokenStep(w) /\ w # lastWord)
            => /\ last'.evaluated
               /\ ColorPatternMatch(w) => last'.dispatch = "word"
               /\ (~ ColorPatternMatch(w) /\ fallbackIfNotOverColor)
                    => last'.dispatch = "fallback"
               /\ (~ ColorPatternMatch(w) /\ ~ fallbackIfNotOverColor)
                    => last'.dispatch = "none" ]_vars

\* A different word 500 ms after the last evaluation is dispatched.
C4_Witness ==
    /\ last.op = "onToken"
    /\ last.word = W_ff8800
    /\ last.elapsedMs = 500
    /\ last.evaluated
    /\ last.dispatch = "word"
    /\ last.calls # << >>
    /\ currentColor = << 255, 136, 0 >>

\* '#' followed by exactly 3 or exactly 6 hexadecimal digits and nothing else.
IsHexColor(w) ==
    /\ Len(w) \in { 4, 7 }
    /\ w[1] = "#"
    /\ \A i \in 2 .. Len(w) : w[i] \in HexDigits

\* C5 as claimed: an evaluated word is treated as a colour exactly when it
\* is '#' followed by exactly 3 or exactly 6 hexadecimal digits; every other
\* word takes the fallback path.
C5_ColorIffThreeOrSixHex ==
    (last.op = "onToken" /\ last.evaluated)
        => /\ (last.dispatch = "word") <=> IsHexColor(last.word)
           /\ (~ IsHexColor(last.word) /\ fallbackIfNotOverColor)
                => last.dispatch = "fallback"

\* "#abc" written as "#aabbcc"
Dup3(w) == << w[1], w[2], w[2], w[3], w[3], w[4], w[4] >>

\* C6 as claimed: dispatching a 3-digit colour word "#abc" to the connected
\* light completes without error and applies the sample of "#aabbcc".
C6_ThreeDigitsDuplicated ==
    (/\ last.op = "onToken"
     /\ last.evaluated
     /\ IsHexColor(last.word)
     /\ Len(last.word) = 4
     /\ Connected)
        => /\ last.raised = "none"
           /\ last.sample = ParseColor(Dup3(last.word))

\* C7 as claimed: when a connected, evaluated try_highlight_word gets a word
\* that is no colour and the fallback is enabled, the colour configured in
\* g:hiHue#fallbackColor is the one dispatched: unless a bridge call fails,
\* currentColor is that colour afterwards, lightIsFallback is true and
\* lastWord is None, whether or not a session existed at import.
C7_FallbackIsConfiguredColor ==
    (/\ last.op = "onToken"
     /\ last.evaluated
     /\ ~ ColorPatternMatch(last.word)
     /\ Connected
     /\ fallbackIfNotOverColor
     /\ last.caught # "device")
        => /\ last.dispatch = "fallback"
           /\ last.sample = ParseColor(fallbackVar)
           /\ currentColor = ParseColor(fallbackVar)
           /\ lightIsFallback
           /\ lastWord = NoWord

\* C8 as claimed: after an evaluated try_highlight_word dispatched a colour
\* word, the lightIsFallback that status() prints is false and lastWord is
\* the word.
C8_FlagFalseAfterColor ==
    (/\ last.op = "onToken"
     /\ last.evaluated
     /\ last.dispatch = "word"
     /\ last.raised = "none")
        => /\ lightIsFallback = FALSE
           /\ lastWord = last.word

\* C9: while connected, a _set_color call (force false) whose sample is the
\* one the call just before it applied without failure attempts no bridge
\* call, so the two calls make one bridge call sequence in total; with force
\* true the sequence is attempted although the sample equals currentColor.
C9_SecondCallSendsNothing ==
    /\ [][ (/\ last.dispatch # "none"
            /\ last.sample # NoColor
            /\ last.caught = "none"
            /\ last.raised = "none"
            /\ last'.op = "onToken"
            /\ last'.dispatch # "none"
            /\ last'.sample = last.sample)
              => /\ last'.calls = << >>
                 /\ last'.caught = "none"
                 /\ currentColor' = currentColor
                 /\ currentColor = last.sample ]_vars
    /\ []((Connected /\ config # "None" /\ currentColor # NoColor)
            => \A fail \in FailPoints :
                 /\ SetColor(bridge, config, currentColor, currentColor,
                             FALSE, FALSE, fail).calls = << >>
                 /\ SetColor(bridge, config, currentColor, currentColor,
                             FALSE, TRUE, fail).calls # << >>)

\* "#FF8800" right after "#ff8800" was applied: the same sample, nothing sent.
C9_Witness ==
    /\ last.op = "onToken"
    /\ last.word = W_FF8800
    /\ last.elapsedMs = 0
    /\ last.dispatch = "word"
    /\ last.sample = << 255, 136, 0 >>
    /\ currentColor = << 255, 136, 0 >>
    /\ Connected
    /\ last.calls = << >>

\* C10: when a bridge call inside _set_color raises, the exception is caught
\* and reported, nothing is raised to the caller and currentColor keeps its
\* value; a following _set_color with the same sample (force false) attempts
\* the bridge calls again.
C10_FailureKeepsColor ==
    /\ [][ last'.caught = "device"
              => /\ last'.raised = "none"
                 /\ pc' = "ready"
                 /\ "[HiHue] Error" \in last'.printed
                 /\ last'.calls # << >>
                 /\ currentColor' = currentColor ]_vars
    /\ [](last.caught = "device"
            => /\ Connected
               /\ \A fail \in FailPoints :
                    SetColor(bridge, config, currentColor, last.sample,
                             FALSE, FALSE, fail).calls # << >>)
    /\ [][ (/\ last.caught = "device"
            /\ last'.op = "onToken"
            /\ last'.dispatch # "none"
            /\ last'.raised = "none"
            /\ last'.sample = last.sample)
              => last'.calls # << >> ]_vars

\* Setting xy failed for "#ff8800": the light is still recorded as off.
C10_Witness ==
    /\ last.op = "onToken"
    /\ last.caught = "device"
    /\ last.calls = << "on", "bri", "lookup", "xy" >>
    /\ last.sample = << 255, 136, 0 >>
    /\ currentColor = Off
    /\ last.raised = "none"

\* C11 as claimed: when connect() is invoked and the handshake with the bridge
\* fails, the connection is Disconnected afterwards, whatever it was before.
C11_FailedConnectDisconnects ==
    (last.op = "connect" /\ last.handshake = "failed") => ~ Connected

\* The messages of lines 50 and 53.
ConfigErrors == { "Bridge ip not defined", "Light name not defined" }

\* C12 as claimed: a connect() that reports a missing bridge address or light
\* name leaves the session handle (hence Connected) and the resolved config
\* exactly as they were before the call.
C12_ConfigErrorChangesNothing ==
    [][ (last'.op = "connect" /\ last'.printed \cap ConfigErrors # {})
         => UNCHANGED << bridge, config >> ]_vars

\* The import runs from a state without credential file.
StartupWithoutCredential == pc = "load" /\ ~ credFile /\ pc' # "load"

\* C13 as claimed: at startup without credential file, with the bridge address
\* and the light name set and disableAtStart off, a connect is attempted, and
\* when its handshake succeeds the credential file exists and the session is
\* Connected.
C13_StartupPairs ==
    [][ (StartupWithoutCredential /\ hasIp /\ hasLight /\ disableAtStart = 0)
         => /\ last'.handshake # "none"
            /\ last'.handshake = "ok" => credFile' /\ Connected' ]_vars

\* C13: at startup without credential file no connect is attempted: the
\* session stays Disconnected, the file stays absent and no bridge call is
\* made.  The first pairing is done by connect(): when it runs without
\* credential file and its handshake succeeds, the registration is reported,
\* the file exists and the session is Connected; and status() reports
\* Connected and the presence of the file as they are.
C13_PairingOnlyOnConnect ==
    /\ [][ StartupWithoutCredential
            => /\ last'.handshake = "none"
               /\ ~ Connected'
               /\ ~ credFile'
               /\ last'.calls = << >> ]_vars
    /\ [][ (last'.op = "connect" /\ ~ credFile /\ last'.handshake = "ok")
            => /\ "Successfully registered" \in last'.printed
               /\ credFile'
               /\ Connected' ]_vars
    /\ [][ last'.op = "status"
            => /\ last'.shown[1] = Connected
               /\ last'.shown[3] = credFile
               /\ UNCHANGED << bridge, config, credFile >> ]_vars

\* connect() has paired after an import that found no session (fallbackColor
\* is None only then).
C13_Witness ==
    /\ last.op = "connect"
    /\ "Successfully registered" \in last.printed
    /\ last.handshake = "ok"
    /\ fallbackColor = NoColor
    /\ disableAtStart = 0
    /\ Connected
    /\ credFile

\* C14 as claimed: no command (connect, disconnect, deregister, status) and no
\* try_highlight_word lets an exception escape to the host.
C14_NoExceptionEscapes ==
    last.op \in { "connect", "disconnect", "deregister", "status", "onToken" }
        => last.raised = "none"

\* Everything but the record of the latest operation.
StateUnchanged ==
    UNCHANGED << pc, now, credFile, hasIp, hasLight, disableAtStart,
                 fallbackVar, fallbackFlagVar, bridge, config, lastWord,
                 lastTimestamp, currentColor, lightIsFallback,
                 fallbackIfNotOverColor, fallbackColor, lastEvalMs >>

\* C15: deregister() leaves the session Disconnected and the credential file
\* absent and returns whether the file existed before the call; a second
\* deregister() right after it returns false and changes nothing.
C15_DeregisterRemovesAndDisconnects ==
    [][ last'.op = "deregister"
         => /\ ~ Connected'
            /\ ~ credFile'
            /\ last'.ret = credFile
            /\ last'.raised = "none"
            /\ last.op = "deregister"
                 => (last'.ret = FALSE /\ StateUnchanged) ]_vars

\* deregister() has removed the file of a session that was connected.
C15_Witness ==
    /\ last.op = "deregister"
    /\ last.ret = TRUE
    /\ "Deregistered bridge" \in last.printed
    /\ ~ credFile
    /\ ~ Connected
    /\ config = "set"
    /\ currentColor # NoColor

\* C16: disconnect() leaves the session Disconnected and changes nothing else:
\* the credential file, the resolved config, currentColor, the tracker
\* (lastWord, lastTimestamp, lightIsFallback) and the fallback settings are as
\* before, and no bridge call is made.  Run in a Disconnected state, as a
\* second disconnect() is, it changes nothing at all.
C16_DisconnectDropsOnlySession ==
    [][ last'.op = "disconnect"
         => /\ ~ Connected'
            /\ UNCHANGED << pc, now, credFile, hasIp, hasLight, disableAtStart,
                            fallbackVar, fallbackFlagVar, config, lastWord,
                            lastTimestamp, currentColor, lightIsFallback,
                            fallbackIfNotOverColor, fallbackColor,
                            lastEvalMs >>
            /\ last'.calls = << >>
            /\ last'.raised = "none"
            /\ ~ Connected => StateUnchanged ]_vars

\* disconnect() has dropped a session that had applied a colour.
C16_Witness ==
    /\ last.op = "disconnect"
    /\ ~ Connected
    /\ config = "set"
    /\ credFile
    /\ currentColor = << 255, 136, 0 >>
    /\ lastWord = W_ff8800

\* C17: when _set_color handles black with a session while currentColor is
\* not black, the only bridge call is the power-off, _rgb_to_xy is not called,
\* and currentColor becomes black once that call has succeeded (a failed call
\* leaves it as it was).  Whenever _rgb_to_xy is called, its argument is not
\* black and X + Y + Z is positive, so that its divisions are defined.
C17_OffOnlyPowersOff ==
    /\ [][ (last'.dispatch # "none" /\ last'.sample = Off /\ Connected'
             /\ currentColor # Off)
            => /\ last'.calls = << "off" >>
               /\ last'.conv = NoColor
               /\ last'.xy = << >>
               /\ last'.caught = "none" => currentColor' = Off
               /\ last'.caught # "none" => currentColor' = currentColor ]_vars
    /\ [](last.conv # NoColor
            => /\ last.conv # Off
               /\ XyzSum(last.conv) > 0
               /\ last.xy # << >>)

\* The fallback has switched off a light that showed a colour.
C17_Witness ==
    /\ last.op = "onToken"
    /\ last.dispatch = "fallback"
    /\ last.sample = Off
    /\ last.calls = << "off" >>
    /\ last.caught = "none"
    /\ Connected
    /\ currentColor = Off
    /\ lastWord = NoWord

\* C18: the fallback policy is on exactly when g:hiHue#fallbackIfNotOverColor
\* is 1, and when try_highlight_word evaluates a word that is no colour while
\* the policy is off, _set_color is not called, no bridge call is made and
\* lastWord, currentColor and lightIsFallback keep their values.
C18_NoFallbackNoDispatch ==
    /\ [](pc = "ready" => (fallbackIfNotOverColor <=> fallbackFlagVar = 1))
    /\ [][ (last'.op = "onToken" /\ last'.evaluated
             /\ ~ ColorPatternMatch(last'.word) /\ ~ fallbackIfNotOverColor)
            => /\ last'.dispatch = "none"
               /\ last'.calls = << >>
               /\ last'.printed = {}
               /\ UNCHANGED << lastWord, currentColor, lightIsFallback >> ]_vars

\* A word that is no colour has been evaluated after a colour word, with a
\* session and the policy off.
C18_Witness ==
    /\ last.op = "onToken"
    /\ last.evaluated
    /\ last.word = W_hello
    /\ last.dispatch = "none"
    /\ ~ fallbackIfNotOverColor
    /\ Connected
    /\ currentColor = << 255, 136, 0 >>
    /\ lastWord = W_ff8800

\* C19 as claimed: right after an evaluation the stored lastTimestamp is the
\* clock in the unit the comparison of line 192 uses, so that the compared
\* difference is the time elapsed since that evaluation (none yet).
C19_SameTimeUnit ==
    (last.op = "onToken" /\ last.evaluated /\ last.raised = "none")
        => /\ lastTimestamp = NowCompared(now)
           /\ NowCompared(now) - lastTimestamp = now - lastEvalMs

\* C20 as claimed: for every colour but black, _rgb_to_xy returns
\* x = X / (X + Y + Z) and y = Y / (X + Y + Z), both over the same sum, so
\* that x + y is at most 1.
C20_BothOverSameSum ==
    (last.op = "rgb_to_xy" /\ last.conv # Off)
        => /\ last.xy # << >>
           /\ last.xy[1] = (Xyz(last.conv)[1] * 1000) \div XyzSum(last.conv)
           /\ last.xy[2] = (Xyz(last.conv)[2] * 1000) \div XyzSum(last.conv)
           /\ last.xy[1] + last.xy[2] <= 1000

====
